---- MODULE Spec2Model ----
(***************************************************************************)
(* Vectra: the server's collection cache (src/src/main.rs) in front of the *)
(* canonical files written by Database (src/src/ver.rs).                   *)
(*                                                                         *)
(* State: the cache table behind the mutex, the data directory, the clock  *)
(* Instant::now()/Utc::now() read, whether the mutex is poisoned, the      *)
(* server's configuration, and a record of the last step taken (what the   *)
(* handler returned and the table when it took the lock), and for one      *)
(* followed collection the records its last successful insert left.        *)
(***************************************************************************)
EXTENDS Integers, Sequences, FiniteSets, TLC

VARIABLES cache, disk, now, poisoned, cfg, ev, inserted

vars == <<cache, disk, now, poisoned, cfg, ev, inserted>>

(* ------------------------------ bounds ------------------------------- *)

\* records a collection may hold before insert steps are no longer explored
MaxVecs == 2
\* last value of the clock
MaxTime == 2

Names == {"a", "b"}
\* the dimensions and vector lengths requests are drawn from
Dims == {0, 1}
\* --cache-max-mb (in bytes) and --cache-ttl-sec the server is started with
MaxBytesChoices == {0, 64}
TtlChoices == {1}

(* ------------------------- program constants ------------------------- *)

\* std::mem::size_of::<f64>()
F64Size == 8
\* "value rough size"
ValueAllowance == 32

(* ------------------------------ ver.rs ------------------------------- *)

\* MetadataValue::String(s) and MetadataValue::DateTime(t), the two variants
\* the server builds
MetaString(s) == [tag |-> "String", s |-> s, t |-> 0]
MetaDateTime(t) == [tag |-> "DateTime", s |-> "", t |-> t]

MetadataEntryNew(key, value) == [key |-> key, value |-> value]

VectorNew(data, metadata) == [data |-> data, metadata |-> metadata]

vector_len(v) == Len(v.data)

DatabaseNew(name, dimension) ==
    [name |-> name, dimension |-> dimension, vectors |-> <<>>]

\* Database::insert: Err and self untouched on a length mismatch, else push
DatabaseInsert(db, vector) ==
    IF vector_len(vector) # db.dimension
    THEN [ok |-> FALSE, db |-> db]
    ELSE [ok |-> TRUE, db |-> [db EXCEPT !.vectors = Append(db.vectors, vector)]]

(* bincode: a struct is its fields in order, a Vec or String its length   *)
(* and its elements, an enum its variant index and its payload.  A token   *)
(* of the model is one fixed-width field or one string; DateTime<Utc> is   *)
(* written by chrono as its text, one string token.                        *)

\* the strings of the model; a string's token is its place in this table
Strings == <<"", "a", "b", "created_at", "source", "x">>
StrTok(s) == CHOOSE i \in 1..Len(Strings) : Strings[i] = s

\* enum MetadataValue, in declaration order (variant index + 1)
Variants == <<"Integer", "Float", "String", "Bool", "DateTime">>
VariantIndex(tag) == (CHOOSE i \in 1..Len(Variants) : Variants[i] = tag) - 1

EncodeEntry(e) ==
    <<StrTok(e.key), VariantIndex(e.value.tag),
      IF e.value.tag = "String" THEN StrTok(e.value.s) ELSE e.value.t>>

RECURSIVE EncodeMetadata(_)
EncodeMetadata(ms) ==
    IF ms = <<>> THEN <<>> ELSE EncodeEntry(Head(ms)) \o EncodeMetadata(Tail(ms))

EncodeVector(v) ==
    <<Len(v.data)>> \o v.data \o <<Len(v.metadata)>> \o EncodeMetadata(v.metadata)

RECURSIVE EncodeVectors(_)
EncodeVectors(vs) ==
    IF vs = <<>> THEN <<>> ELSE EncodeVector(Head(vs)) \o EncodeVectors(Tail(vs))

\* bincode::serialize(&Database)
Serialize(db) ==
    <<StrTok(db.name), db.dimension, Len(db.vectors)>> \o EncodeVectors(db.vectors)

\* a decoder's result: the value read and the tokens left, or a failure
Read(val, rest) == [ok |-> TRUE, val |-> val, rest |-> rest]
Fail == [ok |-> FALSE, val |-> <<>>, rest |-> <<>>]
Drop(bytes, n) == SubSeq(bytes, n + 1, Len(bytes))

\* the elements read, were each put behind those that follow it
PrependBehind(x, r) == IF r.ok THEN Read(r.val \o <<x>>, r.rest) ELSE Fail

\* the element x read, followed by the elements r of the rest
Prepend(x, r) == IF r.ok THEN Read(<<x>> \o r.val, r.rest) ELSE Fail

DecodeValue(tag, payload) ==
    IF tag = "String"
    THEN IF payload \in 1..Len(Strings)
         THEN Read([tag |-> tag, s |-> Strings[payload], t |-> 0], <<>>)
         ELSE Fail
    ELSE Read([tag |-> tag, s |-> "", t |-> payload], <<>>)

EntryOf(key, value, rest) ==
    IF value.ok THEN Read(MetadataEntryNew(key, value.val), rest) ELSE Fail

DecodeEntry(bytes) ==
    IF Len(bytes) < 3 THEN Fail
    ELSE IF bytes[1] \notin 1..Len(Strings) \/ bytes[2] \notin 0..(Len(Variants) - 1)
    THEN Fail
    ELSE EntryOf(Strings[bytes[1]], DecodeValue(Variants[bytes[2] + 1], bytes[3]),
                 Drop(bytes, 3))

RECURSIVE DecodeMetadata(_, _)
MetadataFrom(e, n) ==
    IF e.ok THEN Prepend(e.val, DecodeMetadata(e.rest, n - 1)) ELSE Fail

DecodeMetadata(bytes, n) ==
    IF n = 0 THEN Read(<<>>, bytes) ELSE MetadataFrom(DecodeEntry(bytes), n)

VectorOf(data, ms) == IF ms.ok THEN Read(VectorNew(data, ms.val), ms.rest) ELSE Fail

VectorBody(bytes, n) ==
    IF Len(bytes) < n + 2 THEN Fail
    ELSE VectorOf(SubSeq(bytes, 2, n + 1),
                  DecodeMetadata(Drop(bytes, n + 2), bytes[n + 2]))

DecodeVector(bytes) == IF Len(bytes) < 1 THEN Fail ELSE VectorBody(bytes, bytes[1])

RECURSIVE DecodeVectors(_, _)
VectorsFrom(v, n) ==
    IF v.ok THEN Prepend(v.val, DecodeVectors(v.rest, n - 1)) ELSE Fail

DecodeVectors(bytes, n) ==
    IF n = 0 THEN Read(<<>>, bytes) ELSE VectorsFrom(DecodeVector(bytes), n)

DatabaseOf(name, dimension, vs) ==
    IF vs.ok
    THEN Read([name |-> name, dimension |-> dimension, vectors |-> vs.val], vs.rest)
    ELSE Fail

\* bincode::deserialize::<Database>(&buffer)
Deserialize(bytes) ==
    IF Len(bytes) < 3 \/ bytes[1] \notin 1..Len(Strings) THEN Fail
    ELSE DatabaseOf(Strings[bytes[1]], bytes[2],
                    DecodeVectors(Drop(bytes, 3), bytes[3]))

\* what the path <dir>/<name>.bin holds
Absent == [kind |-> "absent", bytes |-> <<>>]
FileOf(bytes) == [kind |-> "file", bytes |-> bytes]

\* Database::save_to_dir: the outcomes of create_dir_all / File::create /
\* write_all.  Ok: the file holds the encoding of self.  Err before the file
\* is opened: nothing changes.  Err in write_all: File::create has truncated
\* the file and nothing was written.
SaveToDir(db, d) ==
    { [ok |-> TRUE, disk |-> [d EXCEPT ![db.name] = FileOf(Serialize(db))]],
      [ok |-> FALSE, disk |-> d],
      [ok |-> FALSE, disk |-> [d EXCEPT ![db.name] = FileOf(<<>>)]] }

\* Database::load_from_dir: File::open fails -> Err; bincode::deserialize
\* (..).unwrap() panics on bytes that do not decode
Unwrap(r) ==
    IF r.ok THEN [kind |-> "ok", db |-> r.val]
    ELSE [kind |-> "panic", db |-> DatabaseNew("", 0)]

LoadFromDir(d, name) ==
    IF d[name].kind = "absent" THEN [kind |-> "err", db |-> DatabaseNew("", 0)]
    ELSE Unwrap(Deserialize(d[name].bytes))

(* ------------------------------ main.rs ------------------------------ *)

CacheEntry(db, last_access, dirty) ==
    [db |-> db, last_access |-> last_access, dirty |-> dirty]

KeyLen(k) ==
    CASE k = "created_at" -> 10
      [] k = "source" -> 6
      [] OTHER -> 1

RECURSIVE MetaBytes(_)
MetaBytes(ms) ==
    IF ms = <<>> THEN 0
    ELSE KeyLen(Head(ms).key) + ValueAllowance + MetaBytes(Tail(ms))

RECURSIVE VectorsBytes(_)
VectorsBytes(vs) ==
    IF vs = <<>> THEN 0
    ELSE Len(Head(vs).data) * F64Size + MetaBytes(Head(vs).metadata)
         + VectorsBytes(Tail(vs))

\* estimate_entry_bytes (the saturating adds cannot saturate at these sizes)
EstimateEntryBytes(e) == VectorsBytes(e.db.vectors)

RECURSIVE SumBytes(_, _)
SumBytes(m, S) ==
    IF S = {} THEN 0
    ELSE LET k == CHOOSE x \in S : TRUE
         IN EstimateEntryBytes(m[k]) + SumBytes(m, S \ {k})

\* map.values().map(estimate_entry_bytes).sum()
TotalBytes(m) == SumBytes(m, DOMAIN m)

MapRemove(m, k) == [x \in DOMAIN m \ {k} |-> m[x]]
MapInsert(m, k, e) == [x \in DOMAIN m \cup {k} |-> IF x = k THEN e ELSE m[x]]

\* now.duration_since(e.last_access): saturates at zero
DurationSince(t, last) == IF t >= last THEN t - last ELSE 0

\* the filter, were it to drop the dirty test
TtlExpiredIgnoringDirty(e, t, ttl) == DurationSince(t, e.last_access) > ttl

\* the filter of the TTL sweep
TtlExpired(e, t, ttl) == DurationSince(t, e.last_access) > ttl /\ ~e.dirty

\* evict_if_needed, lines 78-83
TtlSweep(m, t, ttl) ==
    [k \in {x \in DOMAIN m : ~TtlExpired(m[x], t, ttl)} |-> m[k]]

\* the key, were dirty entries to sort first
KeyLeqDirtyFirst(e1, e2) ==
    \/ (e1.dirty /\ ~e2.dirty)
    \/ (e1.dirty = e2.dirty /\ e1.last_access <= e2.last_access)

\* the key, were it last_access alone
KeyLeqIgnoringDirty(e1, e2) == e1.last_access <= e2.last_access

\* (dirty, last_access) compared as sort_by_key compares the tuples
KeyLeq(e1, e2) ==
    \/ (~e1.dirty /\ e2.dirty)
    \/ (e1.dirty = e2.dirty /\ e1.last_access <= e2.last_access)

\* the orders entries.sort_by_key can leave: the sort is stable, and the order
\* it starts from is the HashMap's iteration order, which is arbitrary
SortedOrders(m) ==
    LET n == Cardinality(DOMAIN m)
    IN { s \in [1..n -> DOMAIN m] :
           /\ \A i, j \in 1..n : i # j => s[i] # s[j]
           /\ \A i \in 1..n : \A j \in 1..n : i < j => KeyLeq(m[s[i]], m[s[j]]) }

\* the loop, were it to spare the last entry
RECURSIVE ByteLoopSparesLast(_, _, _, _)
ByteLoopSparesLast(m, entries, total_bytes, max_bytes) ==
    IF total_bytes > max_bytes /\ Len(entries) > 1
    THEN LET k == Head(entries)
             sz == EstimateEntryBytes(m[k])
         IN ByteLoopSparesLast(MapRemove(m, k), Tail(entries),
                               IF total_bytes >= sz THEN total_bytes - sz ELSE 0,
                               max_bytes)
    ELSE m

\* the while loop of lines 90-92
RECURSIVE ByteLoop(_, _, _, _)
ByteLoop(m, entries, total_bytes, max_bytes) ==
    IF total_bytes > max_bytes /\ entries # <<>>
    THEN LET k == Head(entries)
             sz == EstimateEntryBytes(m[k])
         IN ByteLoop(MapRemove(m, k), Tail(entries),
                     IF total_bytes >= sz THEN total_bytes - sz ELSE 0,
                     max_bytes)
    ELSE m

\* evict_if_needed, lines 85-92, on the table the TTL sweep left
ByteSweep(m, max_bytes) ==
    IF TotalBytes(m) <= max_bytes THEN {m}
    ELSE { ByteLoop(m, s, TotalBytes(m), max_bytes) : s \in SortedOrders(m) }

\* evict_if_needed: the tables it can leave
EvictIfNeeded(m, max_bytes, ttl, t) == ByteSweep(TtlSweep(m, t, ttl), max_bytes)

(* ------------------------- the last step taken ----------------------- *)

\* op, name, status, total: the request (or "tick") and what it returned.
\* pre, preDisk: the table and the directory when the lock was taken.
\* ran: whether the step reached its evict_if_needed call.  rec: the record an
\* insert built.  flushed: the table the flush loop of a tick left, before the
\* tick's eviction pass.  attempted / succeeded: the names the flush loop
\* called save_to_dir for, and those for which it returned Ok.
Event(op, name, status, total, ran, rec, flushed, attempted, succeeded) ==
    [op |-> op, name |-> name, status |-> status, total |-> total,
     pre |-> cache, preDisk |-> disk, ran |-> ran, rec |-> rec,
     flushed |-> flushed, attempted |-> attempted, succeeded |-> succeeded]

EmptyMap == [x \in {} |-> 0]

NoRec == [data |-> <<>>, metadata |-> <<>>]

\* a handler that returned before evict_if_needed
Early(op, name, status) ==
    Event(op, name, status, 0, FALSE, NoRec, EmptyMap, {}, {})

\* an insert that returned early: rec keeps the request's values
EarlyInsert(name, status, values) ==
    Event("insert", name, status, 0, FALSE, [data |-> values, metadata |-> <<>>],
          EmptyMap, {}, {})

\* the handler's closing evict_if_needed(&mut map, ..) and its Ok(..); the
\* clock is coarse enough that the handler's Instant::now() calls agree
EvictAndReturn(op, name, total, mid, rec, d) ==
    \E out \in EvictIfNeeded(mid, cfg.cache_max_bytes, cfg.cache_ttl, now) :
      /\ cache' = out
      /\ disk' = d
      /\ ev' = Event(op, name, "ok", total, TRUE, rec, EmptyMap, {}, {})
      /\ UNCHANGED <<now, poisoned, cfg>>

\* state.dbs.lock().map_err(|_| "lock")?
LockErr(op, name) ==
    /\ poisoned
    /\ ev' = Early(op, name, "lock")
    /\ UNCHANGED <<cache, disk, now, poisoned, cfg>>

\* a panic while the guard is held: the handler's task dies, the guard is
\* dropped during unwinding and the mutex is poisoned
Panic(op, name, mid) ==
    /\ cache' = mid
    /\ poisoned' = TRUE
    /\ ev' = Early(op, name, "panic")
    /\ UNCHANGED <<disk, now, cfg>>

(* ------------------------------ create_db ---------------------------- *)

\* line 144: if map.contains_key(&req.name) { return Err("exists") }
CreateDbExists(name) == name \in DOMAIN cache

CreateDb(name, dimension) ==
    \/ LockErr("create", name)
    \/ /\ ~poisoned
       /\ CreateDbExists(name)
       /\ ev' = Early("create", name, "exists")
       /\ UNCHANGED <<cache, disk, now, poisoned, cfg>>
    \/ /\ ~poisoned
       /\ ~CreateDbExists(name)
       /\ \E s \in SaveToDir(DatabaseNew(name, dimension), disk) :
            /\ ~s.ok
            /\ disk' = s.disk
            /\ ev' = Early("create", name, "io")
            /\ UNCHANGED <<cache, now, poisoned, cfg>>
    \/ /\ ~poisoned
       /\ ~CreateDbExists(name)
       /\ \E s \in SaveToDir(DatabaseNew(name, dimension), disk) :
            /\ s.ok
            /\ EvictAndReturn("create", name, 0,
                   MapInsert(cache, name,
                       CacheEntry(DatabaseNew(name, dimension), now, FALSE)),
                   NoRec, s.disk)

(* ------------------------------ insert_vec --------------------------- *)

\* the table, were the store synthesized without the request's length
InsertResolveZeroDimension(name, len, l) ==
    IF name \in DOMAIN cache THEN cache
    ELSE MapInsert(cache, name,
             CacheEntry(IF l.kind = "ok" THEN l.db ELSE DatabaseNew(name, 0),
                        now, FALSE))

\* lines 154-157: map.entry(name).or_insert_with(..), the table it leaves;
\* l is what load_from_dir returns
InsertResolve(name, len, l) ==
    IF name \in DOMAIN cache THEN cache
    ELSE MapInsert(cache, name,
             CacheEntry(IF l.kind = "ok" THEN l.db ELSE DatabaseNew(name, len),
                        now, FALSE))

\* lines 159-162: the caller's pairs in the HashMap's order, then created_at
InsertRecord(values, meta) ==
    VectorNew(values,
        Append([i \in 1..Len(meta) |->
                   MetadataEntryNew(meta[i].key, MetaString(meta[i].s))],
               MetadataEntryNew("created_at", MetaDateTime(now))))

\* the entry, were the insert to leave it marked clean
InsertApplyLeavesClean(entry, rec) ==
    [db |-> DatabaseInsert(entry.db, rec).db, last_access |-> now,
     dirty |-> entry.dirty]

\* lines 163-165 on the resolved entry
InsertApply(entry, rec) ==
    [db |-> DatabaseInsert(entry.db, rec).db, last_access |-> now, dirty |-> TRUE]

\* the handler, were neither check to stop it
InsertRejectsNothing(entry, rec) == FALSE

\* line 158, the length check of the handler, and line 163, the Err of
\* Database::insert passed on by `?`: both return before the entry is changed
InsertRejects(entry, rec) ==
    \/ entry.db.dimension # Len(rec.data)
    \/ ~DatabaseInsert(entry.db, rec).ok

\* lines 158-169 on the table `map` that line 154 left
InsertResolved(name, rec, values, map) ==
    \/ /\ InsertRejects(map[name], rec)
       /\ cache' = map
       /\ ev' = EarlyInsert(name, "dimension mismatch", values)
       /\ UNCHANGED <<disk, now, poisoned, cfg>>
    \/ /\ ~InsertRejects(map[name], rec)
       /\ Len(map[name].db.vectors) < MaxVecs
       /\ EvictAndReturn("insert", name, Len(map[name].db.vectors) + 1,
              [map EXCEPT ![name] = InsertApply(map[name], rec)], rec, disk)

InsertLoaded(name, values, meta, l) ==
    \/ LockErr("insert", name)
    \/ /\ ~poisoned
       /\ name \notin DOMAIN cache
       /\ l.kind = "panic"
       /\ Panic("insert", name, cache)
    \/ /\ ~poisoned
       /\ name \in DOMAIN cache \/ l.kind # "panic"
       /\ InsertResolved(name, InsertRecord(values, meta), values,
                         InsertResolve(name, Len(values), l))

InsertVec(name, values, meta) ==
    InsertLoaded(name, values, meta, LoadFromDir(disk, name))

(* ------------------------------- find_vec ---------------------------- *)

\* Metric::from_code
MetricFromCode(code) ==
    CASE code = "eu" -> "Euclidean"
      [] code = "l1" -> "L1"
      [] code = "cs" -> "Cosine"
      [] OTHER -> "None"

MetricCodes == {"eu", "zz"}

(* --------------------------- f64 and distance ------------------------ *)

\* An f64 is [c, v]: a finite number of v / EpsInv (c = "num"), an infinity
\* of sign v (c = "inf"), or NaN.  The mantissa is EpsInv steps per unit in
\* place of 2^52, f64::EPSILON is one step, and a magnitude above FMax
\* overflows to an infinity.
EpsInv == 4
FMax == 1000

NaN == [c |-> "nan", v |-> 0]
Inf(sign) == [c |-> "inf", v |-> sign]
Abs(n) == IF n < 0 THEN -n ELSE n
Sgn(n) == IF n < 0 THEN -1 ELSE IF n > 0 THEN 1 ELSE 0

\* the f64 nearest to units / EpsInv
F(units) ==
    IF Abs(units) > FMax * EpsInv THEN Inf(Sgn(units))
    ELSE [c |-> "num", v |-> units]

\* the f64 of a whole number, as a request's JSON or a file gives it
FloatOf(x) == F(x * EpsInv)
Epsilon == F(1)

\* n / d rounded to the nearest whole number (d # 0)
RoundDiv(n, d) ==
    Sgn(n) * Sgn(d) * ((2 * Abs(n) + Abs(d)) \div (2 * Abs(d)))

ISqrt(n) == CHOOSE r \in 0..n : r * r <= n /\ (r + 1) * (r + 1) > n

IsNaN(a) == a.c = "nan"
FNeg(a) == [a EXCEPT !.v = -@]
FAbs(a) == [a EXCEPT !.v = Abs(@)]

FAdd(a, b) ==
    IF IsNaN(a) \/ IsNaN(b) THEN NaN
    ELSE IF a.c = "inf" /\ b.c = "inf" THEN (IF a.v = b.v THEN a ELSE NaN)
    ELSE IF a.c = "inf" THEN a
    ELSE IF b.c = "inf" THEN b
    ELSE F(a.v + b.v)

FSub(a, b) == FAdd(a, FNeg(b))

FMul(a, b) ==
    IF IsNaN(a) \/ IsNaN(b) THEN NaN
    ELSE IF a.c = "inf" \/ b.c = "inf"
    THEN (IF a.v = 0 \/ b.v = 0 THEN NaN ELSE Inf(Sgn(a.v) * Sgn(b.v)))
    ELSE F(RoundDiv(a.v * b.v, EpsInv))

FDiv(a, b) ==
    IF IsNaN(a) \/ IsNaN(b) THEN NaN
    ELSE IF a.c = "inf" THEN (IF b.c = "inf" THEN NaN
                              ELSE Inf(a.v * (IF b.v < 0 THEN -1 ELSE 1)))
    ELSE IF b.c = "inf" THEN F(0)
    ELSE IF b.v = 0 THEN (IF a.v = 0 THEN NaN ELSE Inf(Sgn(a.v)))
    ELSE F(RoundDiv(a.v * EpsInv, b.v))

FSqrt(a) ==
    IF IsNaN(a) \/ a.v < 0 THEN NaN
    ELSE IF a.c = "inf" THEN a
    ELSE F(ISqrt(a.v * EpsInv))

\* .sum::<f64>() of the first n terms
RECURSIVE FSum(_, _)
FSum(terms, n) ==
    IF n = 0 THEN F(0) ELSE FAdd(FSum(terms, n - 1), terms[n])

\* a.iter().zip(b.iter()): as many pairs as the shorter slice has
ZipLen(a, b) == IF Len(a) < Len(b) THEN Len(a) ELSE Len(b)

SquaredDiffs(a, b) ==
    [i \in 1..ZipLen(a, b) |->
       FMul(FSub(FloatOf(a[i]), FloatOf(b[i])), FSub(FloatOf(a[i]), FloatOf(b[i])))]
AbsDiffs(a, b) ==
    [i \in 1..ZipLen(a, b) |-> FAbs(FSub(FloatOf(a[i]), FloatOf(b[i])))]
Products(a, b) ==
    [i \in 1..ZipLen(a, b) |-> FMul(FloatOf(a[i]), FloatOf(b[i]))]
Norm(a) == FSqrt(FSum(Products(a, a), Len(a)))

\* ver.rs distance(a, b, metric)
distance(a, b, metric) ==
    CASE metric = "Euclidean" -> FSqrt(FSum(SquaredDiffs(a, b), ZipLen(a, b)))
      [] metric = "L1" -> FSum(AbsDiffs(a, b), ZipLen(a, b))
      [] metric = "Cosine" ->
           FSub(FloatOf(1),
                FDiv(FSum(Products(a, b), ZipLen(a, b)),
                     FAdd(FMul(Norm(a), Norm(b)), Epsilon)))

\* a.partial_cmp(&b): None when either is NaN
PartialCmp(a, b) ==
    IF IsNaN(a) \/ IsNaN(b) THEN "None"
    ELSE IF a.c = "inf" /\ b.c = "inf"
    THEN (IF a.v < b.v THEN "Less" ELSE IF a.v > b.v THEN "Greater" ELSE "Equal")
    ELSE IF a.c = "inf" THEN (IF a.v < 0 THEN "Less" ELSE "Greater")
    ELSE IF b.c = "inf" THEN (IF b.v < 0 THEN "Greater" ELSE "Less")
    ELSE IF a.v < b.v THEN "Less" ELSE IF a.v > b.v THEN "Greater" ELSE "Equal"

\* line 181-183: every record's position and its distance to the query
Scored(db, values, metric) ==
    [i \in 1..Len(db.vectors) |->
       [index |-> i - 1, distance |-> distance(db.vectors[i].data, values, metric)]]

\* line 184: a.1.partial_cmp(&b.1).unwrap() panics on the first comparison
\* that meets a NaN, and a slice of two or more has every element compared
SortPanics(scored) ==
    /\ Len(scored) >= 2
    /\ \E i \in 1..Len(scored) : IsNaN(scored[i].distance)

\* x put behind the elements of the sorted s that are not greater than it
InsertStable(s, x, j) == SubSeq(s, 1, j) \o <<x>> \o SubSeq(s, j + 1, Len(s))

NotGreater(s, x) ==
    Cardinality({i \in 1..Len(s) : PartialCmp(s[i].distance, x.distance) # "Greater"})

\* line 184: scored.sort_by(..), a stable sort, on the first n elements
RECURSIVE SortBy(_, _)
SortBy(scored, n) ==
    IF n = 0 THEN <<>>
    ELSE InsertStable(SortBy(scored, n - 1), scored[n],
                      NotGreater(SortBy(scored, n - 1), scored[n]))

\* line 185: req.k.unwrap_or(10); an Option is <<>> or <<n>>
UnwrapOr(k, default) == IF k = <<>> THEN default ELSE k[1]

\* line 187: .take(k)
Take(s, k) == SubSeq(s, 1, IF k < Len(s) THEN k ELSE Len(s))

\* MetadataValue's Display
ValueToString(value) == IF value.tag = "String" THEN value.s ELSE ToString(value.t)

\* lines 188-189: the record's metadata as a map, a later entry of a key
\* replacing an earlier one
MetaMap(ms) ==
    [key \in {ms[i].key : i \in 1..Len(ms)} |->
       ValueToString(ms[CHOOSE i \in 1..Len(ms) :
                          /\ ms[i].key = key
                          /\ \A h \in (i + 1)..Len(ms) : ms[h].key # key].value)]

\* lines 187-192: the FindItem of each pair taken
FindItems(db, taken) ==
    [i \in 1..Len(taken) |->
       [index |-> taken[i].index, distance |-> taken[i].distance,
        values |-> db.vectors[taken[i].index + 1].data,
        metadata |-> MetaMap(db.vectors[taken[i].index + 1].metadata)]]

\* lines 181-192
FindScan(db, values, metric, k) ==
    IF SortPanics(Scored(db, values, metric))
    THEN [kind |-> "panic", items |-> <<>>]
    ELSE [kind |-> "ok",
          items |-> FindItems(db, Take(SortBy(Scored(db, values, metric),
                                              Len(db.vectors)),
                                       UnwrapOr(k, 10)))]

\* what a find request's step records besides Event: the query, the metric
\* code, k and the items returned
FindEvent(e, values, f, k, items) ==
    e @@ [query |-> values, f |-> f, k |-> k, result |-> items]

\* lines 181-195 once both checks have passed; scan is FindScan's result
FindScanned(name, values, f, k, map, scan) ==
    \/ /\ scan.kind = "panic"
       /\ cache' = map
       /\ poisoned' = TRUE
       /\ ev' = FindEvent(Early("find", name, "panic"), values, f, k, <<>>)
       /\ UNCHANGED <<disk, now, cfg>>
    \/ /\ scan.kind = "ok"
       /\ \E out \in EvictIfNeeded([map EXCEPT ![name].last_access = now],
                                   cfg.cache_max_bytes, cfg.cache_ttl, now) :
            /\ cache' = out
            /\ ev' = FindEvent(Event("find", name, "ok", 0, TRUE, NoRec,
                                     EmptyMap, {}, {}),
                               values, f, k, scan.items)
            /\ UNCHANGED <<disk, now, poisoned, cfg>>

\* the checks, were the length of the query not looked at
FindCheckSkipsDimension(db, values, f) ==
    IF MetricFromCode(f) = "None" THEN "unknown metric" ELSE "ok"

\* lines 179-180: the two checks before the scan, in the handler's order
FindCheck(db, values, f) ==
    IF db.dimension # Len(values) THEN "dimension mismatch"
    ELSE IF MetricFromCode(f) = "None" THEN "unknown metric"
    ELSE "ok"

\* lines 178-195 on the table `map` that lines 174-177 left
FindResolved(name, values, f, k, map) ==
    \/ /\ FindCheck(map[name].db, values, f) # "ok"
       /\ cache' = map
       /\ ev' = FindEvent(Early("find", name, FindCheck(map[name].db, values, f)),
                          values, f, k, <<>>)
       /\ UNCHANGED <<disk, now, poisoned, cfg>>
    \/ /\ FindCheck(map[name].db, values, f) = "ok"
       /\ FindScanned(name, values, f, k, map,
                      FindScan(map[name].db, values, MetricFromCode(f), k))

FindLoaded(name, values, f, k, l) ==
    \/ /\ poisoned
       /\ ev' = FindEvent(Early("find", name, "lock"), values, f, k, <<>>)
       /\ UNCHANGED <<cache, disk, now, poisoned, cfg>>
    \/ /\ ~poisoned
       /\ name \notin DOMAIN cache
       /\ l.kind = "err"
       /\ ev' = FindEvent(Early("find", name, "not found"), values, f, k, <<>>)
       /\ UNCHANGED <<cache, disk, now, poisoned, cfg>>
    \/ /\ ~poisoned
       /\ name \notin DOMAIN cache
       /\ l.kind = "panic"
       /\ cache' = cache
       /\ poisoned' = TRUE
       /\ ev' = FindEvent(Early("find", name, "panic"), values, f, k, <<>>)
       /\ UNCHANGED <<disk, now, cfg>>
    \/ /\ ~poisoned
       /\ name \in DOMAIN cache \/ l.kind = "ok"
       /\ FindResolved(name, values, f, k,
              IF name \in DOMAIN cache THEN cache
              ELSE MapInsert(cache, name, CacheEntry(l.db, now, FALSE)))

FindVec(name, values, f, k) ==
    FindLoaded(name, values, f, k, LoadFromDir(disk, name))

(* ------------------------ info_db / compute_db_info ------------------ *)

\* what compute_db_info has gathered: dimension, count and the schema (the
\* pairs of a key and a type name met), or the way it ended
Gathered(kind, dimension, count, schema) ==
    [kind |-> kind, dimension |-> dimension, count |-> count, schema |-> schema]

\* lines 239-241: the keys and type names of a store's metadata entries
SchemaOf(db) ==
    UNION { { <<db.vectors[i].metadata[j].key, db.vectors[i].metadata[j].value.tag>> :
                j \in 1..Len(db.vectors[i].metadata) } : i \in 1..Len(db.vectors) }

\* lines 236-241 on a decoded file
ConsiderDb(acc, db) ==
    IF (IF acc.dimension = 0 THEN db.dimension ELSE acc.dimension) # db.dimension
    THEN Gathered("dimension mismatch in shards", db.dimension, acc.count, acc.schema)
    ELSE Gathered("ok", db.dimension, acc.count + Len(db.vectors),
                  acc.schema \cup SchemaOf(db))

\* lines 230-243, consider_path: r is bincode::deserialize's result, unwrapped
ConsiderPath(acc, r) ==
    IF acc.kind # "ok" THEN acc
    ELSE IF ~r.ok THEN Gathered("panic", acc.dimension, acc.count, acc.schema)
    ELSE ConsiderDb(acc, r.val)

\* lines 246-256: the files read, in order: the canonical file if it exists,
\* then the part files as read_dir yields them
RECURSIVE ConsiderAll(_, _, _)
ConsiderAll(acc, files, n) ==
    IF n = 0 THEN acc
    ELSE ConsiderPath(ConsiderAll(acc, files, n - 1), Deserialize(files[n].bytes))

\* line 257
NotFoundIfZero(acc) ==
    IF acc.kind = "ok" /\ acc.dimension = 0
    THEN Gathered("not found", 0, acc.count, acc.schema)
    ELSE acc

\* compute_db_info(dir, name); parts are the <name>_part_<n>.bin files
ComputeDbInfo(d, name, parts) ==
    NotFoundIfZero(
        ConsiderAll(Gathered("ok", 0, 0, {}),
                    (IF d[name].kind = "absent" THEN <<>> ELSE <<d[name]>>) \o parts,
                    (IF d[name].kind = "absent" THEN 0 ELSE 1) + Len(parts)))

\* lines 220-221: what an info request's step records: Event with the count
\* as its total, and the dimension and schema returned
InfoEvent(name, info) ==
    Event("info", name, info.kind, info.count, FALSE, NoRec, EmptyMap, {}, {})
      @@ [dimension |-> info.dimension, schema |-> info.schema]

\* info_db: reads the directory only, without the cache lock; the server's
\* directory holds no part files
InfoDb(name) ==
    /\ ev' = InfoEvent(name, ComputeDbInfo(disk, name, <<>>))
    /\ UNCHANGED <<cache, disk, now, poisoned, cfg>>

\* the info command and handler on a directory that holds part files:
\* read_dir yields them in an order of its own
InfoScan(name, paths) ==
    /\ \E order \in [1..Cardinality(paths) -> paths] :
         /\ \A i, j \in 1..Cardinality(paths) : i # j => order[i] # order[j]
         /\ ev' = InfoEvent(name,
                ComputeDbInfo(disk, name,
                              [i \in 1..Cardinality(paths) |-> disk[order[i]]]))
    /\ UNCHANGED <<cache, disk, now, poisoned, cfg>>

(* ------------------------ the background flush task ------------------ *)

\* lines 305-314: save_to_dir for every dirty entry, dirty cleared on Ok.
\* The results of the loop over `keys`: the table, the directory, the names
\* saved and the names saved with Ok.
RECURSIVE FlushLoop(_, _, _)
FlushLoop(m, d, keys) ==
    IF keys = {}
    THEN {[map |-> m, disk |-> d, attempted |-> {}, succeeded |-> {}]}
    ELSE LET k == CHOOSE x \in keys : TRUE
         IN IF ~m[k].dirty
            THEN FlushLoop(m, d, keys \ {k})
            ELSE UNION {
                   { [r EXCEPT !.attempted = @ \cup {k},
                               !.succeeded = IF s.ok THEN @ \cup {k} ELSE @] :
                       r \in FlushLoop(IF s.ok THEN [m EXCEPT ![k].dirty = FALSE]
                                       ELSE m,
                                       s.disk, keys \ {k}) } :
                   s \in SaveToDir(m[k].db, d) }

FlushTask ==
    \/ /\ poisoned
       /\ ev' = Event("tick", "", "lock", 0, FALSE, NoRec, cache, {}, {})
       /\ UNCHANGED <<cache, disk, now, poisoned, cfg>>
    \/ /\ ~poisoned
       /\ \E r \in FlushLoop(cache, disk, DOMAIN cache) :
            \E out \in EvictIfNeeded(r.map, cfg.cache_max_bytes, cfg.cache_ttl, now) :
              /\ cache' = out
              /\ disk' = r.disk
              /\ ev' = Event("tick", "", "ok", 0, TRUE, NoRec, r.map,
                             r.attempted, r.succeeded)
              /\ UNCHANGED <<now, poisoned, cfg>>

\* time passing between requests and during the task's sleep
Elapse ==
    /\ now < MaxTime
    /\ now' = now + 1
    /\ UNCHANGED <<cache, disk, poisoned, cfg, ev>>

(* ------------------------- the import-sqlite command ----------------- *)

\* rusqlite's ValueRef for one cell of a row
Cell(t, v) == [t |-> t, v |-> v]

\* s.trim().parse::<f64>() on the texts of the model
ParseF64(s) ==
    CASE s = " 3 " -> [ok |-> TRUE, v |-> 3]
      [] s = "inf" -> [ok |-> TRUE, v |-> 1000000]
      [] OTHER -> [ok |-> FALSE, v |-> 0]

\* lines 355-362: one vector column's cell
CoerceCell(c) ==
    CASE c.t = "Real" -> [ok |-> TRUE, v |-> c.v]
      [] c.t = "Integer" -> [ok |-> TRUE, v |-> c.v]
      [] c.t = "Text" -> ParseF64(c.v)
      [] OTHER -> [ok |-> FALSE, v |-> 0]

\* lines 352-363: the loop over the vector columns from column i on, which
\* breaks at the first cell that is not a number
RECURSIVE Coerce(_, _, _, _)
CoerceNext(row, i, cols, values, c) ==
    IF c.ok THEN Coerce(row, i + 1, cols, Append(values, c.v))
    ELSE [ok |-> FALSE, values |-> values]

Coerce(row, i, cols, values) ==
    IF i > cols THEN [ok |-> TRUE, values |-> values]
    ELSE CoerceNext(row, i, cols, values, CoerceCell(row[i]))

\* <dir>/<name>_part_<shard_index>.bin
ShardPath(name, shard_index) == <<name, "part", shard_index>>

\* Database::save_to_path, called at lines 376 and 385; ver.rs does not define
\* it.  From the specification's persist_shard(explicit_path): the current
\* in-memory record set is serialized to the path given; its failures are
\* those of save_to_dir.
SaveToPath(db, d, path) ==
    { [ok |-> TRUE, disk |-> [d EXCEPT ![path] = FileOf(Serialize(db))]],
      [ok |-> FALSE, disk |-> d],
      [ok |-> FALSE, disk |-> [d EXCEPT ![path] = FileOf(<<>>)]] }

\* line 364 and line 371: the row is counted as skipped
ImportSkip ==
    /\ ev' = [ev EXCEPT !.rows = Tail(@), !.skipped = @ + 1]
    /\ UNCHANGED disk

\* the buffer, were the flush to leave it as it is
ImportAfterFlushKeeps(db) == db

\* line 377: db.vectors.clear()
ImportAfterFlush(db) == [db EXCEPT !.vectors = <<>>]

\* lines 375-378: the buffer is written as the next shard; unwrap() panics
\* when save_to_path returns Err
ImportFlush(db, path) ==
    \E s \in SaveToPath(db, disk, path) :
      /\ disk' = s.disk
      /\ ev' = IF s.ok
               THEN [ev EXCEPT !.rows = Tail(@), !.count = @ + 1,
                               !.db = ImportAfterFlush(db),
                               !.shard_index = @ + 1,
                               !.written = @ \cup {path}]
               ELSE [ev EXCEPT !.pc = "panic"]

\* lines 372-379, r the result of db.insert
ImportInserted(r) ==
    IF ~r.ok THEN ImportSkip
    ELSE IF Len(r.db.vectors) >= ev.batch_size
    THEN ImportFlush(r.db, ShardPath(r.db.name, ev.shard_index))
    ELSE /\ ev' = [ev EXCEPT !.rows = Tail(@), !.count = @ + 1, !.db = r.db]
         /\ UNCHANGED disk

\* lines 364-372, c the result of the coercion loop; no --meta-cols are
\* given, so created_at is the only metadata
ImportCoerced(c) ==
    IF ~c.ok \/ Len(c.values) # ev.cols THEN ImportSkip
    ELSE IF ev.db.dimension # Len(c.values) THEN ImportSkip
    ELSE ImportInserted(DatabaseInsert(ev.db,
             VectorNew(c.values,
                       <<MetadataEntryNew("created_at", MetaDateTime(now))>>)))

\* one turn of the loop of lines 351-381
ImportRow ==
    /\ ev.op = "import" /\ ev.pc = "rows" /\ ev.rows # <<>>
    /\ ImportCoerced(Coerce(Head(ev.rows), 1, ev.cols, <<>>))
    /\ UNCHANGED <<cache, now, poisoned, cfg>>

\* lines 383-387: the remaining records are written and the counts printed
ImportFinish ==
    /\ ev.op = "import" /\ ev.pc = "rows" /\ ev.rows = <<>>
    /\ IF ev.db.vectors # <<>>
       THEN \E s \in SaveToPath(ev.db, disk, ShardPath(ev.db.name, ev.shard_index)) :
              /\ disk' = s.disk
              /\ ev' = IF s.ok
                       THEN [ev EXCEPT !.pc = "done",
                               !.written = @ \cup {ShardPath(ev.db.name, ev.shard_index)}]
                       ELSE [ev EXCEPT !.pc = "panic"]
       ELSE /\ ev' = [ev EXCEPT !.pc = "done"]
            /\ UNCHANGED disk
    /\ UNCHANGED <<cache, now, poisoned, cfg>>

(* ---------------------------- specification -------------------------- *)

\* the unit vector of a given length
Values(len) == [i \in 1..len |-> 1]

\* the pairs of InsertReq.meta in the order the HashMap yields them
ReqMetas == {<<>>}

Init ==
    /\ cache = EmptyMap
    /\ disk = [n \in Names |-> Absent]
    /\ now = 0
    /\ poisoned = FALSE
    /\ cfg \in [cache_max_bytes : MaxBytesChoices, cache_ttl : TtlChoices]
    /\ ev = [op |-> "init", name |-> "", status |-> "ok", total |-> 0,
             pre |-> EmptyMap, preDisk |-> disk, ran |-> FALSE, rec |-> NoRec,
             flushed |-> EmptyMap, attempted |-> {}, succeeded |-> {}]
    /\ inserted = <<>>

Create == \E name \in Names, dimension \in Dims : CreateDb(name, dimension)

Insert ==
    \E name \in Names, len \in Dims, meta \in ReqMetas :
      InsertVec(name, Values(len), meta)

Find ==
    \E name \in Names, len \in Dims, f \in MetricCodes :
      FindVec(name, Values(len), f, <<>>)

Info == \E name \in Names : InfoDb(name)

Next ==
    \/ Create /\ UNCHANGED inserted
    \/ Insert /\ UNCHANGED inserted
    \/ Find /\ UNCHANGED inserted
    \/ Info /\ UNCHANGED inserted
    \/ FlushTask /\ UNCHANGED inserted
    \/ Elapse /\ UNCHANGED inserted

Spec == Init /\ [][Next]_vars

(* ------------- the server with the inserts of one name recorded ------ *)

\* the collection whose successive inserts are followed
Followed == "a"

\* inserted: the record sequence the last successful insert of Followed left
\* in memory, <<>> before the first one
InsertFollowedWith(values, meta) ==
    /\ InsertVec(Followed, values, meta)
    /\ inserted' =
         IF ev'.status = "ok"
         THEN InsertApply(InsertResolve(Followed, Len(ev'.rec.data),
                                        LoadFromDir(disk, Followed))[Followed],
                          ev'.rec).db.vectors
         ELSE inserted

InsertFollowed ==
    \E len \in Dims, meta \in ReqMetas : InsertFollowedWith(Values(len), meta)

InitHist ==
    /\ Init
    /\ cfg.cache_max_bytes = 64

NextHist ==
    \/ (\E dimension \in Dims : CreateDb(Followed, dimension)) /\ UNCHANGED inserted
    \/ InsertFollowed
    \/ (\E len \in Dims, f \in MetricCodes : FindVec(Followed, Values(len), f, <<>>))
         /\ UNCHANGED inserted
    \/ FlushTask /\ UNCHANGED inserted
    \/ Elapse /\ UNCHANGED inserted

SpecHist == InitHist /\ [][NextHist]_vars

(* --------------- evict_if_needed on arbitrary tables ----------------- *)

\* a collection of the given dimension holding k records
RECURSIVE Filled(_, _, _)
Filled(name, dimension, k) ==
    IF k = 0 THEN DatabaseNew(name, dimension)
    ELSE [Filled(name, dimension, k - 1) EXCEPT
            !.vectors = Append(@, VectorNew(Values(dimension),
                <<MetadataEntryNew("created_at", MetaDateTime(0))>>))]

\* the entries a table can hold for a name at clock reading t
EntriesFor(name, t) ==
    { CacheEntry(Filled(name, 1, k), last, dirty) :
        k \in 0..MaxVecs, last \in 0..t, dirty \in BOOLEAN }

Tables(t) ==
    UNION { {m \in [S -> UNION {EntriesFor(n, t) : n \in S}] :
               \A n \in S : m[n] \in EntriesFor(n, t)} : S \in SUBSET Names }

EvictBytesChoices == {0, 50, 64, 100, 128}
EvictTtlChoices == {0, 1, 2}

InitEvict ==
    /\ now \in 0..MaxTime
    /\ cache \in Tables(now)
    /\ disk = [n \in Names |-> Absent]
    /\ poisoned = FALSE
    /\ cfg \in [cache_max_bytes : EvictBytesChoices, cache_ttl : EvictTtlChoices]
    /\ ev = [op |-> "init", pre |-> cache, swept |-> cache]
    /\ inserted = <<>>

\* one call of evict_if_needed(&mut map, max_bytes, ttl)
EvictPass ==
    /\ ev.op = "init"
    /\ \E out \in EvictIfNeeded(cache, cfg.cache_max_bytes, cfg.cache_ttl, now) :
         /\ cache' = out
         /\ ev' = [op |-> "evict", pre |-> cache,
                   swept |-> TtlSweep(cache, now, cfg.cache_ttl)]
    /\ UNCHANGED <<disk, now, poisoned, cfg, inserted>>

NextEvict == EvictPass

SpecEvict == InitEvict /\ [][NextEvict]_vars

(* ------------- the byte-budget sweep on tables of three entries ------ *)

SweepNames == {"a", "b", "c"}

\* the records an entry holds: 50 or 100 estimated bytes
SweepSizes == {1, 2}

\* the entries a table can hold for a name at clock reading t
SweepEntriesFor(name, t) ==
    { CacheEntry(Filled(name, 1, k), last, dirty) :
        k \in SweepSizes, last \in 0..t, dirty \in BOOLEAN }

SweepTables(t) ==
    UNION { {m \in [S -> UNION {SweepEntriesFor(n, t) : n \in S}] :
               \A n \in S : m[n] \in SweepEntriesFor(n, t)} : S \in SUBSET SweepNames }

SweepBytesChoices == {0, 50, 100, 150, 250}

\* the TTL is the server's default: no entry has been idle that long
InitSweep ==
    /\ now = MaxTime
    /\ cache \in SweepTables(now)
    /\ disk = [n \in Names |-> Absent]
    /\ poisoned = FALSE
    /\ cfg \in [cache_max_bytes : SweepBytesChoices, cache_ttl : {600}]
    /\ ev = [op |-> "init", pre |-> cache, swept |-> cache]
    /\ inserted = <<>>

NextSweep == EvictPass

SpecSweep == InitSweep /\ [][NextSweep]_vars

(* ------------------- find_vec on arbitrary collections --------------- *)

\* the numbers records and queries are made of; the last one is large
\* enough for its square to overflow
FindValues == {-1, 0, 1, 2, 100}

SeqsUpTo(S, n) == UNION {[1..m -> S] : m \in 0..n}

FindRecords(dimension) ==
    { VectorNew(data, <<MetadataEntryNew("created_at", MetaDateTime(0))>>) :
        data \in [1..dimension -> FindValues] }

FindStores ==
    UNION { { [name |-> "a", dimension |-> d, vectors |-> vs] :
                vs \in SeqsUpTo(FindRecords(d), MaxVecs) } : d \in Dims }

FindQueries == UNION {[1..d -> FindValues] : d \in Dims}
FindCodes == {"eu", "l1", "cs", "zz"}
FindKs == {<<>>} \cup {<<n>> : n \in 0..(MaxVecs + 1)}

\* a second collection, resident with a record not yet flushed
Bystander ==
    CacheEntry([name |-> "b", dimension |-> 1,
                vectors |-> <<VectorNew(<<1>>,
                    <<MetadataEntryNew("created_at", MetaDateTime(0))>>)>>],
               0, TRUE)

\* the collection queried is resident with unflushed records, or evicted
\* after a flush; the second collection is resident or not
InitFind ==
    /\ \E db \in FindStores, resident \in BOOLEAN, other \in BOOLEAN :
         /\ cache = [n \in (IF resident THEN {"a"} ELSE {})
                            \cup (IF other THEN {"b"} ELSE {}) |->
                       IF n = "a" THEN CacheEntry(db, 0, TRUE) ELSE Bystander]
         /\ disk = [n \in Names |->
                      IF n = "a" /\ ~resident THEN FileOf(Serialize(db)) ELSE Absent]
    /\ now = 0
    /\ poisoned = FALSE
    /\ cfg = [cache_max_bytes |-> 128 * 1024 * 1024, cache_ttl |-> 600]
    /\ ev = [op |-> "init", name |-> "", status |-> "ok"]
    /\ inserted = <<>>

\* one POST /db/a/find
FindRequest ==
    /\ ev.op = "init"
    /\ \E values \in FindQueries, f \in FindCodes, k \in FindKs :
         FindVec("a", values, f, k)
    /\ UNCHANGED inserted

NextFind == FindRequest

SpecFind == InitFind /\ [][NextFind]_vars

(* ------------- insert, flush, eviction and reload of one name -------- *)

ReloadValues == {<<2>>}

\* InsertReq.meta in the order the HashMap yields its pairs
ReloadMetas ==
    { <<>>, <<[key |-> "x", s |-> "a"], [key |-> "source", s |-> "x"]>> }

\* the server started with its default budget and a short TTL
InitReload ==
    /\ cache = EmptyMap
    /\ disk = [n \in Names |-> Absent]
    /\ now = 0
    /\ poisoned = FALSE
    /\ cfg = [cache_max_bytes |-> 128 * 1024 * 1024, cache_ttl |-> 1]
    /\ ev = [op |-> "init", name |-> "", status |-> "ok", total |-> 0,
             pre |-> EmptyMap, preDisk |-> disk, ran |-> FALSE, rec |-> NoRec,
             flushed |-> EmptyMap, attempted |-> {}, succeeded |-> {}]
    /\ inserted = <<>>

ReloadInsert ==
    \E values \in ReloadValues, meta \in ReloadMetas :
      InsertFollowedWith(values, meta)

ReloadFind ==
    /\ \E len \in Dims : FindVec(Followed, Values(len), "eu", <<>>)
    /\ UNCHANGED inserted

NextReload ==
    \/ ReloadInsert
    \/ ReloadFind
    \/ FlushTask /\ UNCHANGED inserted
    \/ Elapse /\ UNCHANGED inserted

SpecReload == InitReload /\ [][NextReload]_vars

(* ------------------------ one run of import-sqlite ------------------- *)

\* rows the source table may hold
MaxRows == 3

\* the cells of the vector columns: two numbers, a text that parses, one
\* that does not, and NULL
Cells ==
    { Cell("Real", 1), Cell("Integer", 2), Cell("Text", " 3 "),
      Cell("Text", "x"), Cell("Null", 0) }

\* --batch-size
BatchSizes == {1, 2, 3}

\* the paths a run can write
ShardPaths == { ShardPath("a", i) : i \in 0..MaxRows }

\* lines 342-350: the buffer is empty and the counters are zero.  source:
\* the rows of the table; rows: those the cursor has not yet returned;
\* written: the paths save_to_path returned Ok for.
InitImport ==
    /\ cache = EmptyMap
    /\ disk = [p \in ShardPaths |-> Absent]
    /\ now = 0
    /\ poisoned = FALSE
    /\ cfg = [cache_max_bytes |-> 0, cache_ttl |-> 0]
    /\ \E cols \in Dims, batch_size \in BatchSizes :
         \E source \in SeqsUpTo([1..cols -> Cells], MaxRows) :
           ev = [op |-> "import", pc |-> "rows", cols |-> cols,
                 batch_size |-> batch_size, source |-> source, rows |-> source,
                 db |-> DatabaseNew("a", cols), shard_index |-> 0,
                 count |-> 0, skipped |-> 0, written |-> {}]
    /\ inserted = <<>>

NextImport ==
    \/ ImportRow /\ UNCHANGED inserted
    \/ ImportFinish /\ UNCHANGED inserted

SpecImport == InitImport /\ [][NextImport]_vars

(* ------------- the server under a scheduler that keeps ticking ------- *)

\* a tick that took the lock and whose every save_to_dir returned Ok
FlushTaskSaved ==
    /\ FlushTask
    /\ ev'.status = "ok"
    /\ ev'.attempted = ev'.succeeded

\* the server with the budget of one record; the clock stands still
InitLive ==
    /\ Init
    /\ cfg.cache_max_bytes = 64

NextLive ==
    \/ (\E name \in Names : CreateDb(name, 0)) /\ UNCHANGED inserted
    \/ (\E name \in Names : InsertVec(name, <<>>, <<>>)) /\ UNCHANGED inserted
    \/ (\E name \in Names : FindVec(name, <<>>, "eu", <<>>)) /\ UNCHANGED inserted
    \/ FlushTask /\ UNCHANGED inserted

\* the loop of lines 302-316 never stops: a tick that can change something
\* is taken; and a save that is retried for ever succeeds in the end
SpecLive ==
    /\ InitLive
    /\ [][NextLive]_vars
    /\ WF_vars(FlushTask /\ UNCHANGED inserted)
    /\ SF_vars(FlushTaskSaved /\ UNCHANGED inserted)

(* ---------------- compute_db_info on a sharded directory ------------ *)

\* the dimensions the files of the directory record
InfoDims == {0, 1, 2}

\* the part files the directory can hold, by file name
InfoParts == {"a_part_0", "a_part_1"}

\* a file written for a collection of some dimension, empty or with a record
InfoFiles == { FileOf(Serialize(Filled("a", d, k))) : d \in InfoDims, k \in 0..1 }

\* the directory after an import, a server run, or both: every file decodes
InitInfo ==
    /\ cache = EmptyMap
    /\ \E present \in SUBSET InfoParts :
         disk \in [{"a"} \cup present -> InfoFiles \cup {Absent}]
    /\ \A p \in DOMAIN disk : p # "a" => disk[p] # Absent
    /\ now = 0
    /\ poisoned = FALSE
    /\ cfg = [cache_max_bytes |-> 0, cache_ttl |-> 0]
    /\ ev = [op |-> "init", name |-> "", status |-> "ok"]
    /\ inserted = <<>>

InfoRequest ==
    /\ ev.op = "init"
    /\ InfoScan("a", DOMAIN disk \ {"a"})
    /\ UNCHANGED inserted

NextInfo == InfoRequest

SpecInfo == InitInfo /\ [][NextInfo]_vars

(* ------------------------------- claims ------------------------------ *)

\* what a request found for its name when it took the lock
Resident == ev.name \in DOMAIN ev.pre
OnDisk == LoadFromDir(ev.preDisk, ev.name).kind = "ok"

\* C1: a create request for a name that exists, in the cache or only as a
\* canonical file, fails and leaves the table and the file as they were
\* (requests on which the file system failed set aside).
C1_CreateExistingFails ==
    (ev.op = "create" /\ ev.status # "io" /\ (Resident \/ OnDisk))
      => (ev.status # "ok" /\ cache = ev.pre /\ disk = ev.preDisk)

\* C2: when an insert request returns ok with total = n, the collection is
\* resident, holds n records and its last record is the one just inserted.
C2_InsertResident ==
    (ev.op = "insert" /\ ev.status = "ok")
      => /\ ev.name \in DOMAIN cache
         /\ Len(cache[ev.name].db.vectors) = ev.total
         /\ ev.total > 0
         /\ cache[ev.name].db.vectors[ev.total] = ev.rec

\* C3: a successful insert on a collection returns the total of the previous
\* successful insert on it plus one, and leaves a record sequence of which
\* the one the previous insert left is a prefix.
C3_InsertsGrow ==
    [][(inserted # <<>> /\ inserted' # inserted)
         => /\ ev'.total = Len(inserted) + 1
            /\ Len(inserted') = Len(inserted) + 1
            /\ SubSeq(inserted', 1, Len(inserted)) = inserted]_vars

\* C4: whenever a request (successful or failed) or a scheduler tick has
\* released the lock, the estimated bytes of the resident entries are within
\* cache_max_bytes.
C4_BudgetCeiling ==
    (ev.op \in {"create", "insert", "find", "tick"} /\ ev.status # "panic")
      => TotalBytes(cache) <= cfg.cache_max_bytes

\* C5: after an eviction pass, whatever the table, max_bytes and ttl, the
\* estimated bytes of the entries still resident are within max_bytes.
C5_EvictUnderBudget ==
    ev.op = "evict" => TotalBytes(cache) <= cfg.cache_max_bytes

C5_Witness ==
    /\ ev.op = "evict"
    /\ TotalBytes(ev.swept) > cfg.cache_max_bytes
    /\ DOMAIN cache # {}
    /\ DOMAIN cache # DOMAIN ev.swept

\* C6: the TTL sweep removes exactly the entries that are clean and idle for
\* strictly more than ttl, and leaves the others as they were: no dirty entry
\* goes, however long it has been idle.
C6_TtlSweepExact ==
    ev.op = "evict"
      => /\ DOMAIN ev.swept \subseteq DOMAIN ev.pre
         /\ \A n \in DOMAIN ev.pre :
              /\ (n \notin DOMAIN ev.swept)
                   <=> (~ev.pre[n].dirty /\ now - ev.pre[n].last_access > cfg.cache_ttl)
              /\ n \in DOMAIN ev.swept => ev.swept[n] = ev.pre[n]

C6_Witness ==
    /\ ev.op = "evict"
    /\ \E n, m \in DOMAIN ev.pre :
         /\ ev.pre[n].dirty
         /\ now - ev.pre[n].last_access > cfg.cache_ttl
         /\ n \in DOMAIN ev.swept
         /\ ~ev.pre[m].dirty
         /\ m \notin DOMAIN ev.swept

\* C7: every resident entry that is clean has a canonical file holding the
\* records the entry holds in memory.
C7_CleanIsFlushed ==
    \A n \in DOMAIN cache :
      ~cache[n].dirty
        => /\ LoadFromDir(disk, n).kind = "ok"
           /\ LoadFromDir(disk, n).db.vectors = cache[n].db.vectors

C7_Witness ==
    /\ ev.op = "tick"
    /\ \E n \in DOMAIN cache :
         /\ n \in ev.succeeded
         /\ ~cache[n].dirty
         /\ cache[n].db.vectors # <<>>

\* the collection an insert request resolved: the resident entry, else the
\* one the canonical file holds
Before ==
    IF Resident THEN ev.pre[ev.name]
    ELSE CacheEntry(LoadFromDir(ev.preDisk, ev.name).db, 0, FALSE)

\* C8: an insert whose vector length differs from the collection's dimension
\* returns a dimension mismatch and leaves the collection's records and dirty
\* flag, the other entries and the directory as they were; Database::insert
\* itself returns Err and leaves the store as it was.
C8_MismatchLeavesUnchanged ==
    /\ (/\ ev.op = "insert"
        /\ ev.status \notin {"lock", "panic"}
        /\ Resident \/ OnDisk
        /\ Before.db.dimension # Len(ev.rec.data))
         => /\ ev.status = "dimension mismatch"
            /\ disk = ev.preDisk
            /\ DOMAIN cache = DOMAIN ev.pre \cup {ev.name}
            /\ cache[ev.name].db = Before.db
            /\ cache[ev.name].dirty = Before.dirty
            /\ \A n \in DOMAIN ev.pre \ {ev.name} : cache[n] = ev.pre[n]
    /\ \A d \in Dims, len \in Dims, k \in 0..MaxVecs :
         len # d
           => DatabaseInsert(Filled("a", d, k), VectorNew(Values(len), <<>>))
                = [ok |-> FALSE, db |-> Filled("a", d, k)]

C8_Witness ==
    /\ ev.op = "insert"
    /\ ev.status = "dimension mismatch"
    /\ ~Resident
    /\ cache[ev.name].db.vectors # <<>>

\* C9: a scheduler tick calls save_to_dir for every entry that is dirty when
\* it starts, clears dirty exactly for those whose save returned Ok, and
\* leaves every entry's records as they were.
C9_TickPersistsDirty ==
    ev.op = "tick"
      => /\ ev.attempted = {n \in DOMAIN ev.pre : ev.pre[n].dirty}
         /\ DOMAIN ev.flushed = DOMAIN ev.pre
         /\ \A n \in DOMAIN ev.pre :
              /\ ev.flushed[n].db = ev.pre[n].db
              /\ ev.flushed[n].dirty <=> (ev.pre[n].dirty /\ n \notin ev.succeeded)

\* C10: a request that has to load its collection ends with a typed failure
\* when the load fails: not found when the canonical file is absent (find),
\* corrupt data when the file does not decode.
C10_LoadFailsTyped ==
    (ev.op \in {"insert", "find"} /\ ev.status # "lock" /\ ~Resident)
      => /\ (ev.op = "find" /\ ev.preDisk[ev.name].kind = "absent")
              => ev.status = "not found"
         /\ LoadFromDir(ev.preDisk, ev.name).kind = "panic"
              => ev.status = "corrupt data"

\* the store a find request resolved: the resident one, else the file's
Found ==
    IF Resident THEN ev.pre[ev.name].db ELSE LoadFromDir(ev.preDisk, ev.name).db

\* (index, distance) of a comes before that of b in the claimed order
Before2(a, b) ==
    \/ PartialCmp(a.distance, b.distance) = "Less"
    \/ PartialCmp(a.distance, b.distance) = "Equal" /\ a.index < b.index

\* C11: a find whose query has the collection's dimension and whose metric is
\* known returns min(k, count) pairs, each a record's index with its distance
\* to the query, ascending by distance, equal distances in index order, and no
\* record left out comes before one returned.
C11_FindReturnsSorted ==
    (/\ ev.op = "find"
     /\ ev.status \notin {"lock", "not found"}
     /\ Found.dimension = Len(ev.query)
     /\ MetricFromCode(ev.f) # "None")
      => /\ ev.status = "ok"
         /\ Len(ev.result) = IF UnwrapOr(ev.k, 10) < Len(Found.vectors)
                             THEN UnwrapOr(ev.k, 10) ELSE Len(Found.vectors)
         /\ \A i \in 1..Len(ev.result) :
              /\ ev.result[i].index \in 0..(Len(Found.vectors) - 1)
              /\ ev.result[i].distance
                   = distance(Found.vectors[ev.result[i].index + 1].data,
                              ev.query, MetricFromCode(ev.f))
         /\ \A i, j \in 1..Len(ev.result) :
              i < j => Before2(ev.result[i], ev.result[j])
         /\ \A h \in 0..(Len(Found.vectors) - 1) :
              (\A i \in 1..Len(ev.result) : ev.result[i].index # h)
                => \A i \in 1..Len(ev.result) :
                     Before2(ev.result[i],
                             [index |-> h,
                              distance |-> distance(Found.vectors[h + 1].data,
                                                    ev.query, MetricFromCode(ev.f))])

\* C11 for the requests whose distances can all be ordered
C11_SortedWhenOrdered ==
    (ev.op = "find" /\ ev.status = "panic") \/ C11_FindReturnsSorted

\* C12: a find whose query length differs from the collection's dimension
\* fails with a dimension mismatch, one whose metric code is unknown with an
\* unknown metric; either returns no items, does not reach the scan, and
\* leaves the directory and every entry's records and dirty flag as they were.
C12_FindRejectsEarly ==
    (/\ ev.op = "find"
     /\ ev.status \notin {"lock", "not found"}
     /\ Resident \/ OnDisk
     /\ Found.dimension # Len(ev.query) \/ MetricFromCode(ev.f) = "None")
      => /\ Found.dimension # Len(ev.query) => ev.status = "dimension mismatch"
         /\ Found.dimension = Len(ev.query) => ev.status = "unknown metric"
         /\ ev.result = <<>>
         /\ ~poisoned
         /\ disk = ev.preDisk
         /\ DOMAIN cache = DOMAIN ev.pre \cup {ev.name}
         /\ cache[ev.name].db = Found
         /\ cache[ev.name].dirty = (Resident /\ ev.pre[ev.name].dirty)
         /\ \A n \in DOMAIN ev.pre :
              cache[n].db = ev.pre[n].db /\ cache[n].dirty = ev.pre[n].dirty

\* a rejected query on which the scan, had it run, would have panicked
C12_Witness ==
    /\ ev.op = "find"
    /\ ev.status = "dimension mismatch"
    /\ ev.f = "cs"
    /\ ~Resident
    /\ "b" \in DOMAIN cache
    /\ FindScan(Found, ev.query, "Cosine", ev.k).kind = "panic"

\* C13: an insert or find request that resolves its name to a resident or
\* newly loaded entry leaves that entry, if it is still resident when the
\* lock is released, with last_access at the time of the request, whether
\* the request succeeded or failed.
C13_TouchUpdatesLastAccess ==
    [][(/\ ev' # ev
        /\ ev'.op \in {"insert", "find"}
        /\ ev'.status \notin {"lock", "panic", "not found"}
        /\ ev'.name \in DOMAIN cache')
         => cache'[ev'.name].last_access = now']_vars

\* C14: for a name with no cache entry and no canonical file, a find fails
\* with not found and leaves the table and the directory as they were, while
\* an insert resolves the name to a fresh empty entry whose dimension is the
\* vector's length and returns ok with total = 1.
C14_OnlyInsertSynthesizes ==
    /\ (/\ ev.op \in {"insert", "find"}
        /\ ev.status # "lock"
        /\ ~Resident
        /\ ev.preDisk[ev.name].kind = "absent")
         => /\ ev.op = "find"
                 => ev.status = "not found" /\ cache = ev.pre /\ disk = ev.preDisk
            /\ ev.op = "insert"
                 => /\ ev.status = "ok"
                    /\ ev.total = 1
                    /\ ev.name \in DOMAIN cache
                         => /\ cache[ev.name].db.dimension = Len(ev.rec.data)
                            /\ cache[ev.name].db.vectors = <<ev.rec>>
    /\ \A n \in Names \ DOMAIN cache, len \in Dims :
         disk[n].kind = "absent"
           => InsertResolve(n, len, LoadFromDir(disk, n))
                = MapInsert(cache, n, CacheEntry(DatabaseNew(n, len), now, FALSE))

C14_Witness ==
    /\ ev.op = "insert"
    /\ ev.status = "ok"
    /\ ~Resident
    /\ ev.preDisk[ev.name].kind = "absent"
    /\ Len(ev.rec.data) = 1
    /\ ev.name \in DOMAIN cache
    /\ \E n \in Names \ DOMAIN cache : disk[n].kind = "absent"

\* C15: a collection loaded again from its canonical file, after its records
\* were inserted, persisted by a tick and its entry evicted, has the name,
\* the dimension and the record sequence the inserts left, every record with
\* its values and its metadata entries in order, created_at last.
C15_ReloadIsLossless ==
    (/\ ev.op = "find"
     /\ ev.status \notin {"lock", "not found", "panic"}
     /\ ~Resident
     /\ inserted # <<>>)
      => /\ ev.name \in DOMAIN cache
         /\ cache[ev.name].db.name = ev.name
         /\ cache[ev.name].db.dimension = Len(inserted[1].data)
         /\ cache[ev.name].db.vectors = inserted
         /\ \A i \in 1..Len(inserted) :
              inserted[i].metadata[Len(inserted[i].metadata)].key = "created_at"

C15_Witness ==
    /\ ev.op = "find"
    /\ ev.status = "ok"
    /\ ~Resident
    /\ Len(inserted) = 2
    /\ cache[ev.name].db.vectors = inserted
    /\ Len(inserted[1].metadata) = 3
    /\ inserted[1].metadata[1].key = "x"
    /\ inserted[2].metadata # inserted[1].metadata

\* the dimension recorded for a name: its cache entry's, else its canonical
\* file's; <<>> when the collection has neither
DimensionOf(c, l, n) ==
    IF n \in DOMAIN c THEN <<c[n].db.dimension>>
    ELSE IF l.kind = "ok" THEN <<l.db.dimension>>
    ELSE <<>>

SameLengths(db) == \A i \in 1..Len(db.vectors) : Len(db.vectors[i].data) = db.dimension

\* C16: in every step, a collection that exists before and after it keeps
\* its dimension, and every record held for it, in its cache entry or in its
\* canonical file, has that length.
C16_DimensionImmutable ==
    [][\A n \in Names :
         /\ (/\ DimensionOf(cache, LoadFromDir(disk, n), n) # <<>>
             /\ DimensionOf(cache', LoadFromDir(disk', n), n) # <<>>)
              => DimensionOf(cache', LoadFromDir(disk', n), n)
                   = DimensionOf(cache, LoadFromDir(disk, n), n)
         /\ n \in DOMAIN cache' => SameLengths(cache'[n].db)
         /\ LoadFromDir(disk', n).kind = "ok" => SameLengths(LoadFromDir(disk', n).db)]_vars

\* C17: an info request succeeds for every collection that is resident in the
\* cache or has a canonical file that decodes, and answers not found only
\* for a collection that has neither.
C17_InfoFindsWhatExists ==
    ev.op = "info"
      => /\ (Resident \/ OnDisk) => ev.status = "ok"
         /\ ev.status = "not found" => ~(Resident \/ OnDisk)

\* the rows of the source table with a vector cell that is not a number
FailCoercion(source) ==
    { i \in 1..Len(source) :
        \E j \in DOMAIN source[i] :
          ~(\/ source[i][j].t \in {"Real", "Integer"}
            \/ source[i][j] = Cell("Text", " 3 ")) }

\* the records the files at the paths P hold, -1 if one does not decode
RECURSIVE ShardRecords(_, _)
ShardRecords(d, P) ==
    IF P = {} THEN 0
    ELSE LET p == CHOOSE x \in P : TRUE
             r == Deserialize(d[p].bytes)
             rest == ShardRecords(d, P \ {p})
         IN IF d[p].kind # "file" \/ ~r.ok \/ rest < 0 THEN -1
            ELSE Len(r.val.vectors) + rest

\* C18: an import of N rows of which M fail vector coercion prints N-M
\* imported and M skipped, and the shard files it wrote hold N-M records in
\* all, whatever the batch size.
C18_ImportCounts ==
    (ev.op = "import" /\ ev.pc = "done")
      => /\ ev.count = Len(ev.source) - Cardinality(FailCoercion(ev.source))
         /\ ev.skipped = Cardinality(FailCoercion(ev.source))
         /\ ShardRecords(disk, ev.written) = ev.count

C18_Witness ==
    /\ ev.op = "import" /\ ev.pc = "done"
    /\ ev.skipped > 0
    /\ ev.count = 2 * ev.batch_size
    /\ Cardinality(ev.written) = 2

\* C18, no row imported: no shard is written
C18_WitnessNone ==
    /\ ev.op = "import" /\ ev.pc = "done"
    /\ ev.source # <<>>
    /\ ev.count = 0
    /\ ev.written = {}

\* what the byte-budget sweep of the last eviction pass removed
Removed == DOMAIN ev.swept \ DOMAIN cache

\* r comes no later than k when clean goes before dirty and, within a class,
\* the older last_access first
NoLater(r, k) ==
    /\ r.dirty => k.dirty
    /\ r.dirty = k.dirty => r.last_access <= k.last_access

\* C19: the byte-budget sweep removes a prefix of the entries ordered clean
\* before dirty, then oldest last_access first, and the shortest one that
\* brings the estimated total within max_bytes: nothing when the total after
\* the TTL sweep is within max_bytes, a dirty entry only when no clean one
\* stays, and the entries that stay are as they were.
C19_ByteSweepShortestPrefix ==
    ev.op = "evict"
      => /\ DOMAIN cache \subseteq DOMAIN ev.swept
         /\ \A k \in DOMAIN cache : cache[k] = ev.swept[k]
         /\ TotalBytes(ev.swept) <= cfg.cache_max_bytes => Removed = {}
         /\ \A r \in Removed : \A k \in DOMAIN cache :
              NoLater(ev.swept[r], ev.swept[k])
         /\ \A r \in Removed :
              ev.swept[r].dirty => \A k \in DOMAIN cache : cache[k].dirty
         /\ TotalBytes(cache) <= cfg.cache_max_bytes
         /\ Removed # {}
              => \E r \in Removed :
                   /\ \A q \in Removed : NoLater(ev.swept[q], ev.swept[r])
                   /\ TotalBytes(cache) + EstimateEntryBytes(ev.swept[r])
                        > cfg.cache_max_bytes

\* a clean entry went, the older of two dirty ones went after it, and the
\* dirty one that stayed was accessed before the clean one
C19_Witness ==
    /\ ev.op = "evict"
    /\ DOMAIN ev.swept = SweepNames
    /\ \E r, q \in Removed : \E k \in DOMAIN cache :
         /\ ~ev.swept[r].dirty
         /\ ev.swept[q].dirty
         /\ cache[k].dirty
         /\ ev.swept[q].last_access < cache[k].last_access
         /\ cache[k].last_access < ev.swept[r].last_access

\* C19, a dirty entry removed: every entry still resident is dirty
C19_WitnessDirty ==
    /\ ev.op = "evict"
    /\ \E r \in Removed : ev.swept[r].dirty
    /\ DOMAIN cache # {}

\* the table a step's eviction pass was given a dirty entry in: for a tick
\* the one its flush loop left, else the one found when the lock was taken
BeforePass == IF ev.op = "tick" THEN ev.flushed ELSE ev.pre

\* C20: a find request, a create request and a scheduler tick, also one
\* whose saves fail, remove no dirty entry from the table: the entry is
\* still resident and dirty, with the records it held.  Nor does an info
\* request or an insert request that fails.
C20_OnlyInsertDropsDirty ==
    (\/ ev.op \in {"find", "create", "tick", "info"}
     \/ ev.op = "insert" /\ ev.status # "ok")
      => \A n \in DOMAIN BeforePass :
           BeforePass[n].dirty
             => /\ n \in DOMAIN cache
                /\ cache[n].dirty
                /\ cache[n].db = BeforePass[n].db

\* a find loaded its collection over the budget: the byte sweep removed it
\* again and kept the dirty entry of the other collection
C20_Witness ==
    /\ ev.op = "find" /\ ev.status = "ok"
    /\ ev.name \notin DOMAIN cache
    /\ \E n \in DOMAIN ev.pre :
         /\ ev.pre[n].dirty
         /\ ev.pre[n].db.vectors # <<>>
         /\ n \in DOMAIN cache

\* C20, a tick whose save failed kept the dirty entry and evicted another
C20_WitnessTick ==
    /\ ev.op = "tick"
    /\ ev.attempted # ev.succeeded
    /\ \E n \in DOMAIN cache : cache[n].dirty /\ cache[n].db.vectors # <<>>
    /\ DOMAIN cache # DOMAIN ev.flushed

\* C20, the one step that drops unflushed records: a successful insert whose
\* eviction pass removed another collection's dirty entry
C20_WitnessInsert ==
    /\ ev.op = "insert" /\ ev.status = "ok"
    /\ \E n \in DOMAIN ev.pre : ev.pre[n].dirty /\ n \notin DOMAIN cache

\* the entry of n holds records not yet saved
Dirty(n) == n \in DOMAIN cache /\ cache[n].dirty

\* the entry of n is clean and the canonical file holds its records, or the
\* entry is gone
Settled(n) ==
    \/ n \notin DOMAIN cache
    \/ /\ ~cache[n].dirty
       /\ LoadFromDir(disk, n).kind = "ok"
       /\ LoadFromDir(disk, n).db.vectors = cache[n].db.vectors

\* C21: under a scheduler that keeps ticking and saves that succeed in the
\* end, an entry that is dirty is later clean with its canonical file holding
\* its records, or removed: none stays dirty for ever.
C21_DirtyIsFlushed == \A n \in Names : Dirty(n) ~> Settled(n)

\* C21, as long as the lock can be taken: a dirty entry is later settled, or
\* the mutex is poisoned
C21_FlushedUnlessPoisoned == \A n \in Names : Dirty(n) ~> (Settled(n) \/ poisoned)

\* C22: a request that fails leaves the cache usable: no later request or
\* tick fails to take the lock, and the mutex is never poisoned while an
\* entry is dirty.
C22_LockStaysUsable ==
    /\ ev.status # "lock"
    /\ ~(poisoned /\ \E n \in DOMAIN cache : cache[n].dirty)

\* C22, the find whose distances cannot be ordered: the mutex is not
\* poisoned while the other collection's entry is dirty
C22_FindLeavesLockUsable ==
    ~(ev.op = "find" /\ poisoned /\ "b" \in DOMAIN cache)

\* the dimensions recorded by the files an info scan read
DimensionsRead ==
    { Deserialize(ev.preDisk[p].bytes).val.dimension :
        p \in {q \in DOMAIN ev.preDisk : ev.preDisk[q].kind = "file"} }

\* C23: an info scan fails with a dimension mismatch whenever two of the
\* files it reads record different dimensions, in whatever order it reads
\* them, dimension 0 included.
C23_InfoRejectsMixedShards ==
    (ev.op = "info" /\ Cardinality(DimensionsRead) > 1)
      => ev.status = "dimension mismatch in shards"

\* C23, no file of dimension 0: a scan of files that record different
\* dimensions fails with the mismatch
C23_RejectsMixedNonZero ==
    (ev.op = "info" /\ Cardinality(DimensionsRead) > 1 /\ 0 \notin DimensionsRead)
      => ev.status = "dimension mismatch in shards"

\* the names an eviction pass on the table of the last pass can remove
Removable ==
    { DOMAIN ev.pre \ DOMAIN out :
        out \in EvictIfNeeded(ev.pre, cfg.cache_max_bytes, cfg.cache_ttl, now) }

\* two entries the sort key does not tell apart
Tied(m) ==
    \E n1, n2 \in DOMAIN m :
      /\ n1 # n2
      /\ m[n1].dirty = m[n2].dirty
      /\ m[n1].last_access = m[n2].last_access

\* C24: the set an eviction pass removes is decided by the table, max_bytes,
\* ttl and the time: every pass on the same table, from a request or from a
\* tick, removes what the last one removed, entries of one dirty class with
\* equal last_access included.
C24_SameTableSameEviction ==
    ev.op = "evict" => Removable = {DOMAIN ev.pre \ DOMAIN cache}

\* C24, no two entries with the same dirty flag and last_access: the set
\* removed is decided by the table
C24_SameEvictionWithoutTies ==
    (ev.op = "evict" /\ ~Tied(ev.swept))
      => Removable = {DOMAIN ev.pre \ DOMAIN cache}

\* C24, in the server: the pass of a tick removes what every pass on the
\* table the flush loop left would remove
C24_TickEvictionDecided ==
    [][(now' = now /\ ev'.op = "tick" /\ ev'.status = "ok")
         => \A out \in EvictIfNeeded(ev'.flushed, cfg.cache_max_bytes,
                                     cfg.cache_ttl, now) :
              DOMAIN out = DOMAIN cache']_vars

====
